---- MODULE Spec2Model ----
(***************************************************************************)
(* Model of the workflow engine of openagent (package workflow):           *)
(* DefaultEngine.RegisterAction, DefaultEngine.Execute and                 *)
(* DefaultEngine.ExecuteStep, with the Workflow / Step / StepResult /      *)
(* WorkflowResult data model they work on.                                 *)
(*                                                                         *)
(* Execute runs the steps of a workflow one after the other in declaration *)
(* order and stops at the first step whose ExecuteStep returns an error.   *)
(* The fields DependsOn, If, Retries and OnError are part of the data      *)
(* model but are read by neither Execute nor ExecuteStep.                  *)
(***************************************************************************)
EXTENDS Integers, Sequences, FiniteSets, TLC

(***************************************************************************)
(* Bounds of the model.                                                    *)
(***************************************************************************)
\* Longest step list of a workflow.
MaxSteps == 3
\* Largest number of dependsOn edges between the steps of a workflow.
MaxEdges == 3
\* Largest value of Step.Retries.
MaxRetries == 2
\* Number of calls the "flaky" stub handler fails before it succeeds.
FlakyFails == 2

(***************************************************************************)
(* Data model.                                                             *)
(***************************************************************************)
StatusPending   == "pending"
StatusRunning   == "running"
StatusCompleted == "completed"
StatusFailed    == "failed"
StatusSkipped   == "skipped"

\* A nil error.
NoError == "nil"
\* The errors Execute and ExecuteStep build themselves, and the one the
\* failing stub handlers report.
ErrInvalidTimeout == "invalid timeout"
ErrUnknownAction  == "unknown action"
ErrAction         == "action failed"

\* A nil / empty map[string]interface{}.
EmptyMap == [k \in {} |-> ""]

\* Step ids are the positions 1..n; GhostId is an id no step has.
GhostId == MaxSteps + 1

\* The handlers the caller registers (each under its own name), and an action
\* name that is never registered.
Handlers == {"ok", "fail", "flaky"}
UnregisteredAction == "nope"
ActionNames == Handlers \cup {UnregisteredAction}

\* Timeout strings: absent, a duration time.ParseDuration accepts, and one it
\* rejects.
Timeouts == {"", "1s", "abc"}

\* time.ParseDuration(s) returns a nil error.
ParseDurationOk(s) == s \in {"1s"}

\* ErrorHandler.Action of an OnError pointer; "" is the nil pointer.
Policies == {"", "abort", "continue"}

\* Step.If expressions: absent, and the two boolean literals.
Conds == {"", "true", "false", "(("}

\* Step.With mappings.
Withs == {EmptyMap, [k \in {"message"} |-> "hello"]}

\* A Step value with every optional field at its zero value.
PlainStep(id, action, deps) ==
    [ID |-> id, Action |-> action, With |-> EmptyMap, If |-> "",
     DependsOn |-> deps, Timeout |-> "", Retries |-> 0, OnError |-> ""]

\* A Workflow value.
MkWorkflow(steps, onError, timeout) ==
    [Steps |-> steps, OnError |-> onError, Timeout |-> timeout]

\* The value of w before Execute is called.
NoWorkflow == MkWorkflow(<<>>, "", "")

(***************************************************************************)
(* The workflows Execute is called with.                                   *)
(***************************************************************************)
\* dependsOn edges <<i, j>>: step i lists step j in DependsOn.
Pairs(n) == {p \in (1..n) \X (1..n) : p[1] # p[2]}
EdgeSets(n) == {E \in SUBSET Pairs(n) : Cardinality(E) <= MaxEdges}

\* <<f, g>>: the step that fails and the step that names a missing id (0: none).
FailOrGhost(n) == {fg \in (0..n) \X (0..n) : fg[1] = 0 \/ fg[2] = 0}

\* Workflows that vary the dependency graph: any declaration order, at most
\* one failing step or one reference to a missing step id.
GraphWorkflows ==
    {MkWorkflow(
        [i \in 1..v.n |->
            PlainStep(i, IF i = v.fg[1] THEN "fail" ELSE "ok",
                      {j \in 1..v.n : <<i, j>> \in v.E}
                          \cup (IF i = v.fg[2] THEN {GhostId} ELSE {}))],
        v.p, "") :
     v \in UNION {
        {[n |-> n, E |-> E, fg |-> fg, p |-> p] :
            E \in EdgeSets(n), fg \in FailOrGhost(n),
            p \in {"", "continue"}} : n \in 1..MaxSteps}}

\* The step of an AttrWorkflow that has non-default attributes: any action
\* name, and one of the optional fields set.
SpecialSteps(id) ==
    LET base(a) == PlainStep(id, a, {}) IN
    UNION {
        {base(a)}
        \cup {[base(a) EXCEPT !.If = c] : c \in Conds \ {""}}
        \cup {[base(a) EXCEPT !.Retries = r] : r \in 1..MaxRetries}
        \cup {[base(a) EXCEPT !.Timeout = t] : t \in Timeouts \ {""}}
        \cup {[base(a) EXCEPT !.OnError = "continue"]}
        \cup {[base(a) EXCEPT !.With = m] : m \in Withs \ {EmptyMap}}
        : a \in ActionNames}

\* Workflows without dependencies that vary the step attributes, the
\* workflow timeout and the error policy.
AttrWorkflows ==
    UNION {
      UNION {
        {MkWorkflow(
            [i \in 1..n |-> IF i = k THEN s
                            ELSE PlainStep(i, IF i \in F THEN "fail" ELSE "ok", {})],
            p, t) :
         s \in SpecialSteps(k), F \in SUBSET ((1..n) \ {k}),
         p \in Policies, t \in Timeouts}
        : k \in 1..n}
      : n \in 1..MaxSteps}

\* Workflows in which a step with a condition has a dependent: the step at
\* position kj[1] has an If expression and the step at kj[2] lists it in
\* DependsOn, in either declaration order; every handler succeeds.
CondWorkflows ==
    UNION {
        {MkWorkflow(
            [i \in 1..n |->
                IF i = kj[1] THEN [PlainStep(i, "ok", {}) EXCEPT !.If = c]
                ELSE IF i = kj[2] THEN PlainStep(i, "ok", {kj[1]})
                ELSE PlainStep(i, "ok", {})],
            "", "") :
         kj \in Pairs(n), c \in {"true", "false"}}
        : n \in 2..MaxSteps}

Workflows ==
    GraphWorkflows \cup AttrWorkflows \cup CondWorkflows
        \cup {MkWorkflow(<<>>, "", "")}

(***************************************************************************)
(* State.                                                                  *)
(***************************************************************************)
VARIABLES
    actions,        \* DefaultEngine.actions: action name -> handler
    pc,             \* where the caller / Execute is
    w,              \* the *Workflow Execute was called with
    ctx,            \* Execute's context: [deadline: it has a timeout,
                    \*   done: its deadline has passed]
    result,         \* Execute's *WorkflowResult
    idx,            \* position of Execute's loop in w.Steps
    stepResult,     \* ExecuteStep's *StepResult while its handler runs
    stepCtx,        \* ExecuteStep's context while its handler runs
    handlerInputs,  \* the allInputs the running handler was called with
    invoked,        \* per step: number of calls of its handler
    calls,          \* per handler: number of calls (state of the stubs)
    ret,            \* what Execute (or a direct ExecuteStep call) returned
    argStep,        \* the step of a direct ExecuteStep call
    argInputs,      \* the inputs of a direct ExecuteStep call
    first,          \* what the caller kept of its first Execute call
    validated,      \* the *Workflow the caller gave to Validate
    validateRet,    \* what Validate returned for it
    agentState,     \* Agent.state
    history,        \* Agent.history
    hooks,          \* Agent.hooks
    runs,           \* per calling goroutine: where its Run call is
    agentOp,        \* the method of the agent that took the last step
    memories,       \* InMemoryStore.memories: id -> Memory
    storeLog,       \* the Save, Delete and Clear calls made so far
    now,            \* the last reading of time.Now()
    storeUuids,     \* number of IDs Save has generated
    defaultAllowed,     \* DefaultPolicy.AllowedActions
    restrictiveAllowed, \* RestrictivePolicy.AllowedActions
    policyLog,      \* the AllowAction and DenyAction calls made so far
    individual,     \* the *Individual the caller gives to Mutate
    mutated,        \* the *Individual Mutate returned
    mutateRate,     \* the rate of the last Mutate call
    evolutionUuids  \* number of IDs Mutate has generated

\* The state of the workflow engine and of its caller.
workflowVars == <<actions, pc, w, ctx, result, idx, stepResult, stepCtx,
                  handlerInputs, invoked, calls, ret, argStep, argInputs, first>>

\* The state of the caller of DefaultValidator.Validate.
validatorVars == <<validated, validateRet>>

\* The state of the agent and of the goroutines calling it.
agentVars == <<agentState, history, hooks, runs, agentOp>>

\* The state of the memory store and of its caller.
storeVars == <<memories, storeLog, now, storeUuids>>

\* The state of the two policies and of their caller.
policyVars == <<defaultAllowed, restrictiveAllowed, policyLog>>

\* The state of the caller of RandomMutator.Mutate.
evolutionVars == <<individual, mutated, mutateRate, evolutionUuids>>

\* The state of the components other than the workflow engine.
otherVars == <<validatorVars, agentVars, storeVars, policyVars, evolutionVars>>

\* The state of every component but one.
exceptValidator == <<workflowVars, agentVars, storeVars, policyVars, evolutionVars>>
exceptAgent == <<workflowVars, validatorVars, storeVars, policyVars, evolutionVars>>
exceptStore == <<workflowVars, validatorVars, agentVars, policyVars, evolutionVars>>
exceptPolicy == <<workflowVars, validatorVars, agentVars, storeVars, evolutionVars>>
exceptEvolution == <<workflowVars, validatorVars, agentVars, storeVars, policyVars>>

vars == <<workflowVars, otherVars>>

\* The variables only a direct ExecuteStep call or a second Execute call
\* writes.
callerVars == <<argStep, argInputs, first>>

\* Placeholders for a StepResult / WorkflowResult that does not exist.
NoStepResult == [StepID |-> 0, Status |-> "", Output |-> EmptyMap, Error |-> NoError]
NoResult == [Status |-> "", Steps |-> <<>>, Error |-> NoError]
Background == [deadline |-> FALSE, done |-> FALSE]
NotReturned == [returned |-> FALSE, resultNil |-> TRUE, err |-> NoError]
\* The caller has not kept a first result.
NoFirst == [kept |-> FALSE, ret |-> NotReturned, result |-> NoResult]

\* A workflow as Validate reads it: its name and, of each step, ID and name.
NoValidated == [Name |-> "", Steps |-> <<>>]

\* A *ValidationError; the nil error has no field.
ValidationError(field, index, message) ==
    [Field |-> field, Index |-> index, Message |-> message]
NoValidationError == ValidationError("", 0, "")

\* Nothing has been validated yet.
ValidatorInit ==
    /\ validated = NoValidated
    /\ validateRet = [returned |-> FALSE, err |-> NoValidationError]

\* Agent.state.
StateIdle == "idle"
StateRunning == "running"
StatePaused == "paused"
StateStopped == "stopped"
StateError == "error"

\* The goroutines that call Run.
Runners == {1, 2}

\* A goroutine that is not in Run.  pc is where the call is, input its
\* argument, content the provider's reply, success and err what it returns,
\* appended the messages this call has appended to the history.
IdleRun ==
    [pc |-> "idle", input |-> "", content |-> "", success |-> FALSE,
     err |-> NoError, appended |-> <<>>]

\* New: the agent is Idle and has no history, no hooks.
AgentInit ==
    /\ agentState = StateIdle
    /\ history = <<>>
    /\ hooks = <<>>
    /\ runs = [r \in Runners |-> IdleRun]
    /\ agentOp = "New"

\* NewInMemoryStore: an empty map.
StoreInit ==
    /\ memories = EmptyMap
    /\ storeLog = <<>>
    /\ now = 1
    /\ storeUuids = 0

\* NewDefaultPolicy, NewRestrictivePolicy: empty maps.
PolicyInit ==
    /\ defaultAllowed = EmptyMap
    /\ restrictiveAllowed = EmptyMap
    /\ policyLog = <<>>

\* No individual yet.
NoIndividual == [ID |-> "", Genes |-> EmptyMap, Version |-> 0]
EvolutionInit ==
    /\ individual = NoIndividual
    /\ mutated = NoIndividual
    /\ mutateRate = 0
    /\ evolutionUuids = 0

Init ==
    /\ actions = EmptyMap
    /\ pc = "idle"
    /\ w = NoWorkflow
    /\ ctx = Background
    /\ result = NoResult
    /\ idx = 0
    /\ stepResult = NoStepResult
    /\ stepCtx = Background
    /\ handlerInputs = EmptyMap
    /\ invoked = <<>>
    /\ calls = [h \in Handlers |-> 0]
    /\ ret = NotReturned
    /\ argStep = PlainStep(0, "", {})
    /\ argInputs = EmptyMap
    /\ first = NoFirst
    /\ ValidatorInit
    /\ AgentInit
    /\ StoreInit
    /\ PolicyInit
    /\ EvolutionInit

(***************************************************************************)
(* Helpers of ExecuteStep and Execute.                                     *)
(***************************************************************************)
\* Mutant of NewStepResult: the StepResult is created Completed.
NewStepResultCompleted(step) ==
    [StepID |-> step.ID, Status |-> StatusCompleted, Output |-> EmptyMap,
     Error |-> NoError]

\* ExecuteStep: result := &StepResult{StepID, Status: StatusRunning, StartTime}.
NewStepResult(step) ==
    [StepID |-> step.ID, Status |-> StatusRunning, Output |-> EmptyMap,
     Error |-> NoError]

\* Mutants of FailedStepResult: a failure path that forgets to set the status,
\* and one that forgets to set the error.
FailedStepResultKeepsRunning(r, err) == [r EXCEPT !.Error = err]
FailedStepResultDropsError(r, err) == [r EXCEPT !.Status = StatusFailed]

\* ExecuteStep's failure paths: Status = StatusFailed, Error = err.
FailedStepResult(r, err) == [r EXCEPT !.Status = StatusFailed, !.Error = err]

\* Mutant of CompletedStepResult: the handler's output is not stored.
CompletedStepResultDropsOutput(r, output) == [r EXCEPT !.Status = StatusCompleted]

\* ExecuteStep's success path: Status = StatusCompleted, Output = output.
CompletedStepResult(r, output) ==
    [r EXCEPT !.Status = StatusCompleted, !.Output = output]

\* Mutant of MergeInputs: the caller's inputs override step.With.
MergeInputsCallerWins(inputs, with) ==
    [k \in DOMAIN inputs \cup DOMAIN with |->
        IF k \in DOMAIN inputs THEN inputs[k] ELSE with[k]]

\* ExecuteStep: allInputs is inputs overlaid with step.With.
MergeInputs(inputs, with) ==
    [k \in DOMAIN inputs \cup DOMAIN with |->
        IF k \in DOMAIN with THEN with[k] ELSE inputs[k]]

\* Mutant of WithAfterMerge: allInputs is step.With itself, so the merge
\* writes the caller's inputs into the step's mapping.
WithAfterMergeAliased(inputs, with) == MergeInputs(inputs, with)

\* step.With after ExecuteStep merged the inputs: allInputs is a mapping made
\* for the call (make), so step.With is only read.
WithAfterMerge(inputs, with) == with

\* handler, ok := e.actions[name]
ActionRegistered(name) == name \in DOMAIN actions

\* context.WithTimeout(parent, d) when a timeout string is set: the child has
\* a deadline and is done as soon as its parent is.
WithTimeout(parent, timeout) ==
    IF timeout # "" THEN [deadline |-> TRUE, done |-> parent.done] ELSE parent

\* What the n-th call of a stub handler returns: "ok" succeeds, "fail" fails,
\* "flaky" fails its first FlakyFails calls and succeeds afterwards.  A
\* failing call returns a partial output next to its error.
HandlerReturns(h, n) ==
    IF h = "fail" \/ (h = "flaky" /\ n <= FlakyFails)
    THEN [output |-> [k \in {"partial"} |-> "true"], err |-> ErrAction]
    ELSE [output |-> [k \in {"done"} |-> "true"], err |-> NoError]

\* Mutant of NewWorkflowResult: the result of the call before is used again.
NewWorkflowResultReused == [result EXCEPT !.Status = StatusRunning]

\* Execute: result := &WorkflowResult{Status: StatusRunning, Steps: empty}.
NewWorkflowResult ==
    [Status |-> StatusRunning, Steps |-> <<>>, Error |-> NoError]

\* Mutant of AppendStepResult: the newest result is put first.
PrependStepResult(steps, sr) == <<sr>> \o steps

\* Execute: result.Steps = append(result.Steps, stepResult).
AppendStepResult(steps, sr) == Append(steps, sr)

\* Mutant of StepFailed: the error ExecuteStep returned is not looked at.
StepFailedNever(err) == FALSE

\* Execute: if err != nil, for the error ExecuteStep returned.
StepFailed(err) == err # NoError

\* Execute's loop body after ExecuteStep returned (sr, err): the result is
\* appended; on an error the workflow is Failed and Execute returns
\* (result, err); otherwise the loop goes on to the next step.
Collect(sr, err) ==
    IF StepFailed(err)
    THEN /\ result' = [result EXCEPT !.Steps = AppendStepResult(@, sr),
                                      !.Status = StatusFailed, !.Error = err]
         /\ ret' = [returned |-> TRUE, resultNil |-> FALSE, err |-> err]
         /\ pc' = "done"
         /\ idx' = idx
    ELSE /\ result' = [result EXCEPT !.Steps = AppendStepResult(@, sr)]
         /\ ret' = ret
         /\ pc' = "loop"
         /\ idx' = idx + 1

(***************************************************************************)
(* Operations.                                                             *)
(***************************************************************************)
\* e.actions[name] = handler.  The caller registers its handlers before it
\* calls Execute.
RegisterAction(name) ==
    /\ pc = "idle"
    /\ actions' = [n \in DOMAIN actions \cup {name} |-> n]
    /\ UNCHANGED <<pc, w, ctx, result, idx, stepResult, stepCtx,
                   handlerInputs, invoked, calls, ret, callerVars>>
    /\ UNCHANGED otherVars

\* Execute, up to its loop: the WorkflowResult is created Running; an
\* unparseable workflow timeout returns (nil, error).
Execute(wf) ==
    /\ w' = wf
    /\ result' = NewWorkflowResult
    /\ invoked' = [i \in 1..Len(wf.Steps) |-> 0]
    /\ IF wf.Timeout # "" /\ ~ParseDurationOk(wf.Timeout)
       THEN /\ ret' = [returned |-> TRUE, resultNil |-> TRUE,
                       err |-> ErrInvalidTimeout]
            /\ pc' = "done"
            /\ UNCHANGED <<ctx, idx>>
       ELSE /\ ctx' = WithTimeout(Background, wf.Timeout)
            /\ idx' = 1
            /\ pc' = "loop"
            /\ ret' = ret
    /\ UNCHANGED <<actions, stepResult, stepCtx, handlerInputs, calls,
                   argStep, argInputs>>
    /\ UNCHANGED otherVars

\* The next iteration of Execute's loop: ExecuteStep on w.Steps[idx], up to
\* the call of the handler.  An unparseable step timeout or an unregistered
\* action name makes ExecuteStep return a Failed result at once.
StepBegin ==
    /\ pc = "loop"
    /\ idx <= Len(w.Steps)
    /\ LET step == w.Steps[idx]
           r    == NewStepResult(step)
           with == WithAfterMerge(EmptyMap, step.With)
       IN  IF step.Timeout # "" /\ ~ParseDurationOk(step.Timeout)
           THEN /\ Collect(FailedStepResult(r, ErrInvalidTimeout), ErrInvalidTimeout)
                /\ UNCHANGED <<w, stepResult, stepCtx, handlerInputs, invoked, calls>>
           ELSE IF ~ActionRegistered(step.Action)
           THEN /\ Collect(FailedStepResult(r, ErrUnknownAction), ErrUnknownAction)
                /\ w' = [w EXCEPT !.Steps[idx].With = with]
                /\ UNCHANGED <<stepResult, stepCtx, handlerInputs, invoked, calls>>
           ELSE /\ stepResult' = r
                /\ stepCtx' = WithTimeout(ctx, step.Timeout)
                /\ handlerInputs' = MergeInputs(EmptyMap, step.With)
                /\ w' = [w EXCEPT !.Steps[idx].With = with]
                /\ invoked' = [invoked EXCEPT ![idx] = @ + 1]
                /\ calls' = [calls EXCEPT ![actions[step.Action]] = @ + 1]
                /\ pc' = "handler"
                /\ UNCHANGED <<result, idx, ret>>
    /\ UNCHANGED <<actions, ctx, callerVars>>
    /\ UNCHANGED otherVars

\* The handler returns: ExecuteStep finishes its StepResult (Failed with the
\* handler's error, or Completed with its output) and Execute collects it.
HandlerReturn ==
    /\ pc = "handler"
    /\ LET h   == actions[w.Steps[idx].Action]
           out == HandlerReturns(h, calls[h])
       IN  IF out.err # NoError
           THEN Collect(FailedStepResult(stepResult, out.err), out.err)
           ELSE Collect(CompletedStepResult(stepResult, out.output), NoError)
    /\ stepResult' = NoStepResult
    /\ stepCtx' = Background
    /\ handlerInputs' = EmptyMap
    /\ UNCHANGED <<actions, w, ctx, invoked, calls, callerVars>>
    /\ UNCHANGED otherVars

\* Execute after its loop: the workflow is Completed.
ExecuteFinish ==
    /\ pc = "loop"
    /\ idx > Len(w.Steps)
    /\ result' = [result EXCEPT !.Status = StatusCompleted]
    /\ ret' = [returned |-> TRUE, resultNil |-> FALSE, err |-> NoError]
    /\ pc' = "done"
    /\ UNCHANGED <<actions, w, ctx, idx, stepResult, stepCtx, handlerInputs,
                   invoked, calls, callerVars>>
    /\ UNCHANGED otherVars

\* The deadline of Execute's context passes while Execute runs: the context
\* and the context ExecuteStep derived from it are done.  Neither Execute nor
\* ExecuteStep looks at ctx.Done() or ctx.Err(); the stub handlers do not
\* either.
WorkflowDeadline ==
    /\ pc \in {"loop", "handler"}
    /\ ctx.deadline /\ ~ctx.done
    /\ ctx' = [ctx EXCEPT !.done = TRUE]
    /\ stepCtx' = IF pc = "handler" THEN [stepCtx EXCEPT !.done = TRUE]
                  ELSE stepCtx
    /\ UNCHANGED <<actions, pc, w, result, idx, stepResult, handlerInputs,
                   invoked, calls, ret, callerVars>>
    /\ UNCHANGED otherVars

\* The deadline ExecuteStep derived from step.Timeout passes while the handler
\* is in flight.
StepDeadline ==
    /\ \/ pc = "handler" /\ w.Steps[idx].Timeout # ""
       \/ pc = "stepHandler" /\ argStep.Timeout # ""
    /\ ~stepCtx.done
    /\ stepCtx' = [stepCtx EXCEPT !.done = TRUE]
    /\ UNCHANGED <<actions, pc, w, ctx, result, idx, stepResult, handlerInputs,
                   invoked, calls, ret, callerVars>>
    /\ UNCHANGED otherVars

\* The inputs a caller passes to ExecuteStep, and the steps it passes.
InputMaps ==
    UNION {[D -> {"hello", "bye"}] : D \in SUBSET {"message", "extra"}}
StepArgs == SpecialSteps(1)

\* A direct call ExecuteStep(ctx, step, in) with a background context: the
\* StepResult is created Running.
ExecuteStepCall(st, in) ==
    /\ pc = "idle"
    /\ DOMAIN actions = Handlers
    /\ argStep' = st
    /\ argInputs' = in
    /\ invoked' = <<0>>
    /\ stepResult' = NewStepResult(st)
    /\ pc' = "stepCalled"
    /\ UNCHANGED <<actions, w, ctx, result, idx, stepCtx, handlerInputs,
                   calls, ret, first>>
    /\ UNCHANGED otherVars

\* The direct call up to the call of the handler: an unparseable timeout
\* returns a Failed result before the inputs are merged, an unregistered
\* action returns one after.
ExecuteStepBegin ==
    /\ pc = "stepCalled"
    /\ LET st   == argStep
           with == WithAfterMerge(argInputs, st.With)
       IN  IF st.Timeout # "" /\ ~ParseDurationOk(st.Timeout)
           THEN /\ stepResult' = FailedStepResult(stepResult, ErrInvalidTimeout)
                /\ ret' = [returned |-> TRUE, resultNil |-> FALSE,
                           err |-> ErrInvalidTimeout]
                /\ pc' = "stepDone"
                /\ UNCHANGED <<argStep, stepCtx, handlerInputs, calls>>
           ELSE IF ~ActionRegistered(st.Action)
           THEN /\ stepResult' = FailedStepResult(stepResult, ErrUnknownAction)
                /\ ret' = [returned |-> TRUE, resultNil |-> FALSE,
                           err |-> ErrUnknownAction]
                /\ argStep' = [st EXCEPT !.With = with]
                /\ pc' = "stepDone"
                /\ UNCHANGED <<stepCtx, handlerInputs, calls>>
           ELSE /\ stepCtx' = WithTimeout(Background, st.Timeout)
                /\ handlerInputs' = MergeInputs(argInputs, st.With)
                /\ argStep' = [st EXCEPT !.With = with]
                /\ calls' = [calls EXCEPT ![actions[st.Action]] = @ + 1]
                /\ pc' = "stepHandler"
                /\ UNCHANGED <<stepResult, ret>>
    /\ UNCHANGED <<actions, w, ctx, result, idx, invoked, argInputs, first>>
    /\ UNCHANGED otherVars

\* The handler of a direct ExecuteStep call returns, and ExecuteStep returns
\* its StepResult and the handler's error.
ExecuteStepReturn ==
    /\ pc = "stepHandler"
    /\ LET h   == actions[argStep.Action]
           out == HandlerReturns(h, calls[h])
       IN  /\ stepResult' = IF out.err # NoError
                            THEN FailedStepResult(stepResult, out.err)
                            ELSE CompletedStepResult(stepResult, out.output)
           /\ ret' = [returned |-> TRUE, resultNil |-> FALSE, err |-> out.err]
    /\ invoked' = <<1>>
    /\ pc' = "stepDone"
    /\ UNCHANGED <<actions, w, ctx, result, idx, stepCtx, handlerInputs,
                   calls, callerVars>>
    /\ UNCHANGED otherVars

\* The caller's direct calls of ExecuteStep.
ExecuteStepCallAny ==
    /\ pc = "idle"
    /\ \E st \in StepArgs, in \in InputMaps : ExecuteStepCall(st, in)

\* The caller keeps what its first Execute call returned and calls Execute
\* again on the same engine with the same Workflow value.
ExecuteAgain ==
    /\ pc = "done"
    /\ ~first.kept
    /\ first' = [kept |-> TRUE, ret |-> ret, result |-> result]
    /\ Execute(w)

\* The caller's call of Execute, once its handlers are registered.
ExecuteCall ==
    /\ pc = "idle"
    /\ DOMAIN actions = Handlers
    /\ \E wf \in Workflows : Execute(wf)
    /\ UNCHANGED first

Next ==
    \/ \E name \in Handlers : RegisterAction(name)
    \/ ExecuteCall
    \/ StepBegin
    \/ HandlerReturn
    \/ ExecuteFinish
    \/ WorkflowDeadline
    \/ StepDeadline
    \/ ExecuteStepCallAny
    \/ ExecuteStepBegin
    \/ ExecuteStepReturn

Spec == Init /\ [][Next]_vars

\* Execute and ExecuteStep are sequential calls that go on until they return:
\* every handler of the registry returns, and nothing else is waited for.
FairSpec == Spec /\ WF_vars(Next)

\* The caller that executes its workflow twice.
RerunNext == Next \/ ExecuteAgain
RerunSpec == Init /\ [][RerunNext]_vars

(***************************************************************************)
(* Observations the properties are stated with.                            *)
(***************************************************************************)
Terminal == {StatusCompleted, StatusFailed, StatusSkipped}

\* The status of a step that has no StepResult: ExecuteStep was not called
\* for it.
NoStatus == "none"

Called == pc \in {"loop", "handler", "done"}
Done == pc = "done"
Positions == DOMAIN w.Steps
StepIds == {w.Steps[i].ID : i \in Positions}

\* The status of the step at position i: that of its StepResult in
\* result.Steps, or of the StepResult ExecuteStep is working on.
StepStatus(i) ==
    IF \E k \in DOMAIN result.Steps : result.Steps[k].StepID = w.Steps[i].ID
    THEN LET k == CHOOSE k \in DOMAIN result.Steps :
                      result.Steps[k].StepID = w.Steps[i].ID
         IN  result.Steps[k].Status
    ELSE IF pc = "handler" /\ idx = i THEN stepResult.Status
    ELSE NoStatus

\* The positions of the steps the step at position i lists in DependsOn.
Deps(i) == {j \in Positions : w.Steps[j].ID \in w.Steps[i].DependsOn}

\* The positions the step at position i depends on through one or more
\* dependsOn edges.
RECURSIVE DepsWithin(_, _)
DepsWithin(S, k) ==
    IF k = 0 THEN S
    ELSE DepsWithin(S \cup UNION {Deps(j) : j \in S}, k - 1)
TransDeps(i) == DepsWithin(Deps(i), Len(w.Steps))

HasCycle == \E i \in Positions : i \in TransDeps(i)
HasUnknownDependency ==
    \E i \in Positions : ~(w.Steps[i].DependsOn \subseteq StepIds)
ValidGraph == ~HasCycle /\ ~HasUnknownDependency

\* The error policy in force for the step at position i: the step's OnError,
\* else the workflow's, else abort.
EffectivePolicy(i) ==
    IF w.Steps[i].OnError # "" THEN w.Steps[i].OnError
    ELSE IF w.OnError # "" THEN w.OnError
    ELSE "abort"
AbortPolicy == \A i \in Positions : EffectivePolicy(i) = "abort"
ContinuePolicy == \A i \in Positions : EffectivePolicy(i) = "continue"

\* Steps still to run and deadlines still to pass: every step of Execute and
\* every deadline that passes makes it smaller.
Rank ==
    IF pc = "done" THEN 0
    ELSE 3 * (2 * (Len(w.Steps) - idx + 1) + (IF pc = "loop" THEN 1 ELSE 0))
         + (IF ctx.deadline /\ ~ctx.done THEN 1 ELSE 0)
         + (IF pc = "handler" /\ ~stepCtx.done THEN 1 ELSE 0)

(***************************************************************************)
(* Properties.                                                             *)
(***************************************************************************)
\* C1 (as claimed): whenever a step's handler has been started, every step
\* of the workflow listed in its DependsOn has a terminal status.
C1_DepsTerminalBeforeStart ==
    pc = "handler" => \A j \in Deps(idx) : StepStatus(j) \in Terminal

C3_CyclicRejected ==
    Called /\ HasCycle =>
        /\ \A i \in Positions : invoked[i] = 0
        /\ Done => ret.err = "cyclic dependency"

\* C4 (as claimed): for a workflow that names a missing step id in a
\* DependsOn no handler is called, and Execute returns a Failed result with
\* an unknown-dependency error.
C4_UnknownDependencyRejected ==
    Called /\ HasUnknownDependency =>
        /\ \A i \in Positions : invoked[i] = 0
        /\ Done => /\ ~ret.resultNil
                   /\ result.Status = StatusFailed
                   /\ ret.err = "unknown dependency"

\* C5 (as claimed): the handler of a step whose If is the literal false is
\* never called, and the step is Skipped when Execute returns.
C5_FalseConditionSkips ==
    \A i \in Positions :
        w.Steps[i].If = "false" =>
            /\ invoked[i] = 0
            /\ Done /\ ~ret.resultNil /\ result.Status = StatusCompleted
                   => StepStatus(i) = StatusSkipped

\* C6 (as claimed): under the abort policy a step that depends on a failed
\* step was never Running: it is Skipped or was never scheduled.
C6_AbortDependentNeverRuns ==
    AbortPolicy =>
        \A y \in Positions : \A x \in Deps(y) :
            StepStatus(x) = StatusFailed =>
                StepStatus(y) \in {NoStatus, StatusSkipped}

\* C7 (as claimed): under the continue policy, when Execute has returned the
\* direct dependents of a failed step are Skipped and every step with a
\* succeeding handler and no dependency path from a failed step is Completed.
C7_ContinueRunsUnrelated ==
    Done /\ ~ret.resultNil /\ ContinuePolicy /\ ValidGraph =>
        LET failed == {x \in Positions : StepStatus(x) = StatusFailed} IN
        /\ \A y \in Positions :
               Deps(y) \cap failed # {} => StepStatus(y) = StatusSkipped
        /\ \A z \in Positions :
               (/\ w.Steps[z].Action = "ok"
                /\ w.Steps[z].If # "false"
                /\ w.Steps[z].Timeout # "abc"
                /\ failed # {}
                /\ (TransDeps(z) \cup {z}) \cap failed = {})
               => StepStatus(z) = StatusCompleted

\* C8 (as claimed): a step with the flaky handler (FlakyFails failures, then
\* success) and no unparseable timeout that has its result is Completed after FlakyFails + 1 calls when
\* Retries >= FlakyFails, and Failed after Retries + 1 calls otherwise.
C8_Retries ==
    \A i \in Positions :
        (/\ w.Steps[i].Action = "flaky"
         /\ w.Steps[i].Timeout # "abc"
         /\ StepStatus(i) \in Terminal) =>
            IF w.Steps[i].Retries >= FlakyFails
            THEN StepStatus(i) = StatusCompleted /\ invoked[i] = FlakyFails + 1
            ELSE StepStatus(i) = StatusFailed /\ invoked[i] = w.Steps[i].Retries + 1

\* The StepResults of the step at position i.
ResultsOf(i) ==
    {k \in DOMAIN result.Steps : result.Steps[k].StepID = w.Steps[i].ID}

\* C9 (as claimed): a step with an unregistered action name never has its
\* handler called, and its one StepResult is Failed with the unknown-action
\* error, whatever its Retries.
C9_UnknownActionError ==
    \A i \in Positions :
        ~ActionRegistered(w.Steps[i].Action) =>
            /\ invoked[i] = 0
            /\ ~(pc = "handler" /\ idx = i)
            /\ Cardinality(ResultsOf(i)) <= 1
            /\ \A k \in ResultsOf(i) :
                   /\ result.Steps[k].Status = StatusFailed
                   /\ result.Steps[k].Error = ErrUnknownAction

\* C9 (amended): a step with an unregistered action name never has its
\* handler called, and its one StepResult is Failed, whatever its Retries:
\* with the unknown-action error when its Timeout is empty or parses, with
\* the invalid-timeout error when its Timeout does not parse.
C9_UnknownActionFails ==
    \A i \in Positions :
        ~ActionRegistered(w.Steps[i].Action) =>
            /\ invoked[i] = 0
            /\ ~(pc = "handler" /\ idx = i)
            /\ Cardinality(ResultsOf(i)) <= 1
            /\ \A k \in ResultsOf(i) :
                   /\ result.Steps[k].Status = StatusFailed
                   /\ result.Steps[k].Error =
                        IF w.Steps[i].Timeout = "" \/ ParseDurationOk(w.Steps[i].Timeout)
                        THEN ErrUnknownAction ELSE ErrInvalidTimeout

\* C9 witness: Execute has returned after a step with an unregistered action
\* and Retries > 0 failed with the unknown-action error, its handler never
\* called, and after an earlier step completed.
C9_Witness ==
    /\ Done
    /\ \E i \in Positions :
          /\ w.Steps[i].Action = UnregisteredAction
          /\ w.Steps[i].Retries = MaxRetries
          /\ StepStatus(i) = StatusFailed
          /\ ret.err = ErrUnknownAction
          /\ invoked[i] = 0
          /\ i > 1 /\ StepStatus(1) = StatusCompleted

\* C10 (as claimed): whenever Execute has returned, the WorkflowResult it
\* returned is not nil.
C10_ResultNeverNil == Done => ~ret.resultNil

(***************************************************************************)
(* What Execute and ExecuteStep hand back.                                 *)
(***************************************************************************)
\* Execute has returned a WorkflowResult (not the nil of an invalid
\* workflow timeout).
Returned == Done /\ ~ret.resultNil

\* The position in w.Steps of the step with the given ID.
PositionOf(id) == CHOOSE i \in Positions : w.Steps[i].ID = id

\* The step at position i failed in its handler, which ran.
FailedInHandler(i) ==
    /\ StepStatus(i) = StatusFailed
    /\ invoked[i] = 1
    /\ w.Steps[i].Action \in DOMAIN actions

\* Every timeout string of the workflow parses as a duration.
TimeoutsParse ==
    /\ w.Timeout # "" => ParseDurationOk(w.Timeout)
    /\ \A i \in Positions : w.Steps[i].Timeout # "" => ParseDurationOk(w.Steps[i].Timeout)

\* Every step's action has a handler.
ActionsRegistered == \A i \in Positions : ActionRegistered(w.Steps[i].Action)

\* C11: Execute returns a non-nil error only for a failure found before any
\* step runs (a cyclic or unknown dependency); when a step fails at run time
\* the failure is in the WorkflowResult and the returned error is nil.
C11_StepFailureReturnsNilError ==
    (Returned /\ ValidGraph /\ TimeoutsParse /\ ActionsRegistered) =>
        ret.err = NoError

\* C12: when Execute returns, the WorkflowResult is Completed exactly if every
\* step ended Completed or Skipped, it is Failed whenever a step failed, and
\* it is never Running or Pending.
C12_StatusMatchesSteps ==
    Returned =>
        /\ result.Status \in {StatusCompleted, StatusFailed}
        /\ result.Status = StatusCompleted <=>
               \A i \in Positions : StepStatus(i) \in {StatusCompleted, StatusSkipped}
        /\ (\E i \in Positions : StepStatus(i) = StatusFailed) =>
               result.Status = StatusFailed

\* A run that was Failed by its second step, after a first one that completed.
C12_Witness ==
    /\ Returned
    /\ Len(w.Steps) >= 2
    /\ StepStatus(1) = StatusCompleted
    /\ FailedInHandler(2)
    /\ result.Status = StatusFailed

\* C13: the WorkflowResult Execute returns holds exactly one StepResult for
\* every step of the workflow, each with a terminal status, also when the
\* workflow failed part-way.
C13_EveryStepReported ==
    Returned =>
        /\ Len(result.Steps) = Len(w.Steps)
        /\ \A i \in Positions :
               /\ Cardinality(ResultsOf(i)) = 1
               /\ StepStatus(i) \in Terminal

\* C14: the StepResults of a WorkflowResult are in the order in which the
\* workflow declares the steps, not in completion or dependency order.
C14_DeclarationOrder ==
    \A k1, k2 \in DOMAIN result.Steps :
        k1 < k2 =>
            PositionOf(result.Steps[k1].StepID) < PositionOf(result.Steps[k2].StepID)

\* All three steps are reported, and the first depends on the last, so the
\* dependency order is not the declaration order.
C14_Witness ==
    /\ Returned
    /\ Len(result.Steps) = 3
    /\ w.Steps[3].ID \in w.Steps[1].DependsOn

\* The workflow uses none of the stateful handlers.
DeterministicHandlers ==
    \A i \in Positions : w.Steps[i].Action # "flaky"

\* C15: a second Execute of the same Workflow with the same deterministic
\* handlers returns what the first returned: the same error, workflow status
\* and StepResults (status, output and error of every step), whichever
\* deadlines passed in either run.
C15_RerunIdentical ==
    (Done /\ first.kept /\ DeterministicHandlers) =>
        /\ ret = first.ret
        /\ result = first.result

\* The second run of a workflow is over, and it failed at its second step.
C15_Witness ==
    /\ Done /\ first.kept /\ DeterministicHandlers
    /\ Len(w.Steps) >= 2
    /\ Len(result.Steps) = 2
    /\ result.Steps[1].Status = StatusCompleted
    /\ result.Steps[2].Status = StatusFailed

\* C16: under the abort policy a failed step is the last one dispatched: its
\* StepResult is the last recorded, no later step's handler has run or has a
\* StepResult, Execute has returned and the WorkflowResult is Failed.
C16_AbortStopsDispatch ==
    (Called /\ AbortPolicy) =>
        \A k \in DOMAIN result.Steps :
            result.Steps[k].Status = StatusFailed =>
                /\ Done
                /\ result.Status = StatusFailed
                /\ k = Len(result.Steps)
                /\ \A j \in Positions :
                       j > k => invoked[j] = 0 /\ StepStatus(j) = NoStatus

\* The first of three steps failed in its handler under the abort policy.
C16_Witness ==
    /\ Returned /\ AbortPolicy
    /\ Len(w.Steps) = 3
    /\ FailedInHandler(1)
    /\ invoked[2] = 0 /\ invoked[3] = 0

\* C17: once the workflow-level timeout has expired no step is dispatched,
\* and Execute returns a Failed WorkflowResult with the cause
\* "workflow timeout", also when the handlers ignore the cancellation and
\* return success.
C17_WorkflowTimeoutAborts ==
    [][(Called /\ ctx.deadline /\ ctx.done) =>
           /\ ~(pc = "loop" /\ pc' = "handler")
           /\ (pc # "done" /\ pc' = "done") =>
                  /\ result'.Status = StatusFailed
                  /\ result'.Error = "workflow timeout"]_vars

\* C18: a step whose timeout passes while its handler is in flight ends
\* Failed with the cause "step timeout", whatever the handler returns.
C18_StepTimeoutFails ==
    [][/\ (pc = "stepHandler" /\ argStep.Timeout # "" /\ stepCtx.done
              /\ pc' = "stepDone") =>
              /\ stepResult'.Status = StatusFailed
              /\ stepResult'.Error = "step timeout"
       /\ (pc = "handler" /\ w.Steps[idx].Timeout # "" /\ stepCtx.done
              /\ ~ctx.done /\ pc' # "handler") =>
              LET r == result'.Steps[Len(result'.Steps)]
              IN  r.Status = StatusFailed /\ r.Error = "step timeout"]_vars

\* m is inputs overlaid with with: the keys of both and no other, the value
\* of with where both have the key.
IsOverlay(m, inputs, with) ==
    /\ DOMAIN m = DOMAIN inputs \cup DOMAIN with
    /\ \A k \in DOMAIN with : m[k] = with[k]
    /\ \A k \in DOMAIN inputs \ DOMAIN with : m[k] = inputs[k]

\* C19: the inputs a handler is called with are the caller's inputs overlaid
\* with the step's with map (with wins on a shared key) and hold no other
\* key; Execute passes no inputs of its own.
C19_InputsOverlay ==
    /\ pc = "stepHandler" => IsOverlay(handlerInputs, argInputs, argStep.With)
    /\ pc = "handler" => IsOverlay(handlerInputs, EmptyMap, w.Steps[idx].With)

\* A handler is in flight whose step and caller both set "message", to
\* different values, and whose caller set a key the step does not have.
C19_Witness ==
    /\ pc = "stepHandler"
    /\ "message" \in DOMAIN argStep.With
    /\ DOMAIN argInputs = {"message", "extra"}
    /\ argInputs["message"] # argStep.With["message"]

\* The StepResults handed back so far: those of the WorkflowResult, and the
\* one a direct ExecuteStep call returned.
ReturnedStepResults ==
    {<<w.Steps[PositionOf(result.Steps[k].StepID)].Action, result.Steps[k]>> :
        k \in DOMAIN result.Steps}
    \cup (IF pc = "stepDone" THEN {<<argStep.Action, stepResult>>} ELSE {})

\* The outputs the handler registered under the action name has returned
\* without an error.
SuccessOutputs(action) ==
    IF action \in DOMAIN actions
    THEN {HandlerReturns(actions[action], n).output :
              n \in {m \in 1..calls[actions[action]] :
                        HandlerReturns(actions[action], m).err = NoError}}
    ELSE {}

\* C20: every StepResult ExecuteStep or Execute returns has an error exactly
\* if it is Failed, has the output its handler returned if it is Completed,
\* and has an empty output if it is Failed or Skipped.
C20_StepResultShape ==
    \A ar \in ReturnedStepResults :
        LET r == ar[2]
        IN  /\ r.Error # NoError <=> r.Status = StatusFailed
            /\ r.Status = StatusCompleted => r.Output \in SuccessOutputs(ar[1])
            /\ r.Status \in {StatusFailed, StatusSkipped} => r.Output = EmptyMap

\* Execute returned a Completed StepResult with its handler's output and a
\* Failed one whose handler returned an output next to its error.
C20_Witness ==
    /\ Returned
    /\ Len(result.Steps) = 2
    /\ result.Steps[1].Status = StatusCompleted
    /\ result.Steps[1].Output # EmptyMap
    /\ FailedInHandler(2)
    /\ result.Steps[2].Output = EmptyMap

\* C21: a step whose If expression is malformed ends Failed with a
\* condition syntax error; its handler is never called, not even once.
C21_MalformedConditionFails ==
    \A i \in Positions :
        w.Steps[i].If = "((" =>
            /\ invoked[i] = 0
            /\ Returned => /\ StepStatus(i) = StatusFailed
                           /\ result.Steps[i].Error = "condition syntax error"

ValidatedSteps == [ID : {"", "s"}, Name : {"", "fetch"}]
ValidatedWorkflows ==
    {[Name |-> n, Steps |-> st] :
        n \in {"", "wf"},
        st \in UNION {[1..k -> ValidatedSteps] : k \in 0..MaxSteps}}

\* Validate's loop from position i on (i counts from 1, the index in the
\* error's field from 0): the ID of a step is looked at before its name.
RECURSIVE ValidateSteps(_, _)
ValidateSteps(steps, i) ==
    IF i > Len(steps) THEN NoValidationError
    ELSE IF steps[i].ID = "" THEN ValidationError("steps[].id", i - 1, "required")
    ELSE IF steps[i].Name = "" THEN ValidationError("steps[].name", i - 1, "required")
    ELSE ValidateSteps(steps, i + 1)

\* Mutant of Validate: the step list is looked at before the name.
ValidateStepsFirst(wf) ==
    IF Len(wf.Steps) = 0
    THEN ValidationError("steps", 0, "at least one step required")
    ELSE IF wf.Name = "" THEN ValidationError("name", 0, "required")
    ELSE ValidateSteps(wf.Steps, 1)

\* DefaultValidator.Validate.
Validate(wf) ==
    IF wf.Name = "" THEN ValidationError("name", 0, "required")
    ELSE IF Len(wf.Steps) = 0
    THEN ValidationError("steps", 0, "at least one step required")
    ELSE ValidateSteps(wf.Steps, 1)

\* The caller validates a workflow; Validate only reads it.
ValidateCall ==
    /\ \E wf \in ValidatedWorkflows :
           /\ validated' = wf
           /\ validateRet' = [returned |-> TRUE, err |-> Validate(wf)]
    /\ UNCHANGED exceptValidator

ValidatorNext == ValidateCall

ValidatorSpec == Init /\ [][ValidatorNext]_vars

\* The positions of the validated steps with an empty ID or an empty name.
Offenders ==
    {i \in DOMAIN validated.Steps :
        validated.Steps[i].ID = "" \/ validated.Steps[i].Name = ""}

\* C23: Validate returns an error exactly if the name is empty, the step
\* list is empty or a step has an empty ID or name; the error names the
\* first offending field: name, then steps, then the steps in order, of each
\* its ID before its name.
C23_ValidateFirstOffender ==
    validateRet.returned =>
        LET err == validateRet.err
            st  == validated.Steps
        IN  /\ err # NoValidationError <=>
                   (validated.Name = "" \/ Len(st) = 0 \/ Offenders # {})
            /\ validated.Name = "" => err.Field = "name"
            /\ (validated.Name # "" /\ Len(st) = 0) => err.Field = "steps"
            /\ (validated.Name # "" /\ Offenders # {}) =>
                   LET i == CHOOSE j \in Offenders : \A k \in Offenders : j <= k
                   IN  /\ err.Index = i - 1
                       /\ err.Field = IF st[i].ID = "" THEN "steps[].id"
                                      ELSE "steps[].name"

\* Validate reported the missing name of the second step of a workflow whose
\* third step has no ID.
C23_Witness ==
    /\ validateRet.returned
    /\ validated.Name # ""
    /\ Len(validated.Steps) = 3
    /\ Offenders = {2, 3}
    /\ validated.Steps[2].ID # ""
    /\ validated.Steps[3].ID = ""
    /\ validateRet.err = ValidationError("steps[].name", 1, "required")

(***************************************************************************)
(* Agent.                                                                  *)
(***************************************************************************)
\* The longest history the callers let the agent have.
MaxHistory == 4

\* The errors Run returns.
ErrAlreadyRunning == "agent is already running"
ErrBeforeRun == "BeforeRun failed"
ErrProvider == "provider failed"
ErrAfterRun == "AfterRun failed"

\* Inputs of Run, replies of the provider (its Content may be empty), and
\* hooks: one whose BeforeRun fails and one whose AfterRun fails (a hook that
\* never fails is like no hook).
RunInputs == {"hi", "go"}
Replies == {"", "ok"}
HookKinds == {"failBefore", "failAfter"}

\* provider.Message{Role, Content}.
Message(role, content) == [Role |-> role, Content |-> content]

\* Mutant of HistoryUpdate: the reply is appended also when it is empty.
HistoryUpdateAlwaysReplies(input, content) ==
    <<Message("user", input), Message("assistant", content)>>

\* Run, on success: what it appends to a.history.
HistoryUpdate(input, content) ==
    IF content # ""
    THEN <<Message("user", input), Message("assistant", content)>>
    ELSE <<Message("user", input)>>

\* The Run calls that are past their admission check and have not returned.
InFlight == {r \in Runners : runs[r].pc \notin {"idle", "returned"}}

\* Run, its admission: under the mutex, a Running agent refuses the call
\* (nil result and an error), any other state becomes Running.
RunCall(r, input) ==
    /\ runs[r].pc \in {"idle", "returned"}
    /\ Len(history) + 2 * (Cardinality(InFlight) + 1) <= MaxHistory
    /\ IF agentState = StateRunning
       THEN /\ runs' = [runs EXCEPT ![r] = [IdleRun EXCEPT
                           !.pc = "returned", !.input = input,
                           !.err = ErrAlreadyRunning]]
            /\ agentState' = agentState
       ELSE /\ runs' = [runs EXCEPT ![r] = [IdleRun EXCEPT
                           !.pc = "before", !.input = input]]
            /\ agentState' = StateRunning
    /\ agentOp' = "Run"
    /\ UNCHANGED <<history, hooks>>
    /\ UNCHANGED exceptAgent

\* Run, the BeforeRun hooks: the first error ends the call.
RunBefore(r) ==
    /\ runs[r].pc = "before"
    /\ IF \E k \in DOMAIN hooks : hooks[k] = "failBefore"
       THEN runs' = [runs EXCEPT ![r].pc = "defer", ![r].err = ErrBeforeRun]
       ELSE runs' = [runs EXCEPT ![r].pc = "build"]
    /\ agentOp' = "Run"
    /\ UNCHANGED <<agentState, history, hooks>>
    /\ UNCHANGED exceptAgent

\* Run builds the request from the system prompt, a.history and the input.
RunBuild(r) ==
    /\ runs[r].pc = "build"
    /\ runs' = [runs EXCEPT ![r].pc = "complete"]
    /\ agentOp' = "Run"
    /\ UNCHANGED <<agentState, history, hooks>>
    /\ UNCHANGED exceptAgent

\* provider.Complete returns: an error makes the agent's state Error and
\* ends the call, a reply is kept for the history.
RunComplete(r) ==
    /\ runs[r].pc = "complete"
    /\ \/ /\ runs' = [runs EXCEPT ![r].pc = "defer", ![r].err = ErrProvider]
          /\ agentState' = StateError
       \/ \E reply \in Replies :
              /\ runs' = [runs EXCEPT ![r].pc = "update", ![r].content = reply]
              /\ agentState' = agentState
    /\ agentOp' = "Run"
    /\ UNCHANGED <<history, hooks>>
    /\ UNCHANGED exceptAgent

\* Run updates the history under the mutex and builds its result.
RunUpdate(r) ==
    /\ runs[r].pc = "update"
    /\ history' = history \o HistoryUpdate(runs[r].input, runs[r].content)
    /\ runs' = [runs EXCEPT
                   ![r].pc = "after", ![r].success = TRUE,
                   ![r].appended = HistoryUpdate(runs[r].input, runs[r].content)]
    /\ agentOp' = "Run"
    /\ UNCHANGED <<agentState, hooks>>
    /\ UNCHANGED exceptAgent

\* Run, the AfterRun hooks: the first error is returned with the result.
RunAfter(r) ==
    /\ runs[r].pc = "after"
    /\ IF \E k \in DOMAIN hooks : hooks[k] = "failAfter"
       THEN runs' = [runs EXCEPT ![r].pc = "defer", ![r].err = ErrAfterRun]
       ELSE runs' = [runs EXCEPT ![r].pc = "defer"]
    /\ agentOp' = "Run"
    /\ UNCHANGED <<agentState, history, hooks>>
    /\ UNCHANGED exceptAgent

\* Run's deferred function: a state that is still Running becomes Idle.
RunDefer(r) ==
    /\ runs[r].pc = "defer"
    /\ agentState' = IF agentState = StateRunning THEN StateIdle ELSE agentState
    /\ runs' = [runs EXCEPT ![r].pc = "returned"]
    /\ agentOp' = "Run"
    /\ UNCHANGED <<history, hooks>>
    /\ UNCHANGED exceptAgent

\* Agent.Stop.
Stop ==
    /\ agentState' = StateStopped
    /\ agentOp' = "Stop"
    /\ UNCHANGED <<history, hooks, runs>>
    /\ UNCHANGED exceptAgent

\* Mutant of Pause: the state is not looked at.
PauseAlways ==
    /\ agentState' = StatePaused
    /\ agentOp' = "Pause"
    /\ UNCHANGED <<history, hooks, runs>>
    /\ UNCHANGED exceptAgent

\* Agent.Pause.
Pause ==
    /\ agentState' = IF agentState = StateRunning THEN StatePaused ELSE agentState
    /\ agentOp' = "Pause"
    /\ UNCHANGED <<history, hooks, runs>>
    /\ UNCHANGED exceptAgent

\* Agent.Resume.
Resume ==
    /\ agentState' = IF agentState = StatePaused THEN StateIdle ELSE agentState
    /\ agentOp' = "Resume"
    /\ UNCHANGED <<history, hooks, runs>>
    /\ UNCHANGED exceptAgent

\* Agent.ClearHistory.
ClearHistory ==
    /\ history' = <<>>
    /\ agentOp' = "ClearHistory"
    /\ UNCHANGED <<agentState, hooks, runs>>
    /\ UNCHANGED exceptAgent

\* Agent.AddHook; the caller adds one hook at most.
AddHook(kind) ==
    /\ hooks = <<>>
    /\ hooks' = Append(hooks, kind)
    /\ agentOp' = "AddHook"
    /\ UNCHANGED <<agentState, history, runs>>
    /\ UNCHANGED exceptAgent

AgentNext ==
    \/ \E r \in Runners, input \in RunInputs : RunCall(r, input)
    \/ \E r \in Runners : RunBefore(r)
    \/ \E r \in Runners : RunBuild(r)
    \/ \E r \in Runners : RunComplete(r)
    \/ \E r \in Runners : RunUpdate(r)
    \/ \E r \in Runners : RunAfter(r)
    \/ \E r \in Runners : RunDefer(r)
    \/ Stop
    \/ Pause
    \/ Resume
    \/ ClearHistory
    \/ \E kind \in HookKinds : AddHook(kind)

AgentSpec == Init /\ [][AgentNext]_vars

\* C24: a new agent is Idle; Pause makes a Running agent Paused and changes
\* no other state; Resume makes a Paused agent Idle and changes no other
\* state; Stop makes the state Stopped whatever it was.
C24_StateMachine ==
    /\ agentState = StateIdle
    /\ [][/\ agentOp' = "Pause" =>
                agentState' = IF agentState = StateRunning THEN StatePaused
                              ELSE agentState
          /\ agentOp' = "Resume" =>
                agentState' = IF agentState = StatePaused THEN StateIdle
                              ELSE agentState
          /\ agentOp' = "Stop" => agentState' = StateStopped]_vars

\* Pause has paused an agent whose Run is waiting for the provider.
C24_Witness ==
    /\ agentOp = "Pause"
    /\ agentState = StatePaused
    /\ \E r \in Runners : runs[r].pc = "complete"

\* The Run call of r is over.
RunReturned(r) == runs[r].pc = "returned"

\* C25: a Run that succeeded has appended to the history the user message
\* and then the assistant reply, the reply only if it is not empty, and
\* nothing else; a Run that was refused, or whose BeforeRun hook or provider
\* failed, has appended nothing; and no other step of Run changes the history.
C25_RunHistory ==
    /\ [](\A r \in Runners :
             RunReturned(r) =>
                 /\ runs[r].err = NoError =>
                        runs[r].appended =
                            <<Message("user", runs[r].input)>> \o
                            (IF runs[r].content = "" THEN <<>>
                             ELSE <<Message("assistant", runs[r].content)>>)
                 /\ runs[r].err \in {ErrAlreadyRunning, ErrBeforeRun, ErrProvider} =>
                        runs[r].appended = <<>>)
    /\ [][(agentOp' = "Run" /\ history' # history) =>
              \E r \in Runners :
                  /\ runs[r].pc = "update"
                  /\ runs'[r].pc = "after"
                  /\ history' = history \o runs'[r].appended]_vars

\* One Run returned successfully with an empty reply and appended only its
\* user message, another was ended by the provider's error.
C25_Witness ==
    /\ RunReturned(1) /\ runs[1].err = NoError /\ runs[1].content = ""
    /\ history = <<Message("user", runs[1].input)>>
    /\ RunReturned(2) /\ runs[2].err = ErrProvider

(***************************************************************************)
(* InMemoryStore.                                                          *)
(***************************************************************************)
\* The number of Save, Delete and Clear calls the caller makes.
MaxOps == 3

\* MemoryType.
TypeEpisodic == "episodic"
TypeSemantic == "semantic"

\* The zero time.Time, and the nil *time.Time of a Filter.
ZeroTime == 0
NoTime == -1

\* The IDs uuid.New() hands out, in this order, and the IDs the caller uses.
Uuids == <<"u1", "u2", "u3", "u4", "u5">>
CallerIds == {"a", "b"}
MemoryIds == CallerIds \cup {Uuids[n] : n \in DOMAIN Uuids} \cup {"zz"}

\* A Memory value.
Memory(id, type, content, metadata, createdAt) ==
    [ID |-> id, Type |-> type, Content |-> content, Metadata |-> metadata,
     CreatedAt |-> createdAt, UpdatedAt |-> ZeroTime]
NoMemory == Memory("", "", "", EmptyMap, ZeroTime)

\* The memories the caller saves: with and without an ID, of two types, with
\* and without metadata, with and without a creation time of their own.
SavedMemories ==
    {Memory(id, sh[1], sh[2], sh[3], sh[4]) :
        id \in CallerIds \cup {""},
        sh \in {<<TypeEpisodic, "m1", EmptyMap, ZeroTime>>,
                <<TypeSemantic, "m2", EmptyMap, 2>>,
                <<TypeEpisodic, "m3", [k \in {"topic"} |-> "go"], ZeroTime>>,
                <<TypeEpisodic, "m4", EmptyMap, 2>>}}

\* An entry of the caller's log: the call, its id, the memory as Save left
\* it, and whether the call returned an error.
LogEntry(op, id, m, failed) == [op |-> op, id |-> id, memory |-> m, failed |-> failed]

\* Mutant of Filled: the creation time is set on every Save.
FilledCreatedNow(m, t) ==
    [m EXCEPT !.ID = IF m.ID = "" THEN Uuids[storeUuids + 1] ELSE m.ID,
              !.CreatedAt = t,
              !.UpdatedAt = t]

\* Save fills in the ID, the creation time and the update time of m.
Filled(m, t) ==
    [m EXCEPT !.ID = IF m.ID = "" THEN Uuids[storeUuids + 1] ELSE m.ID,
              !.CreatedAt = IF m.CreatedAt = ZeroTime THEN t ELSE m.CreatedAt,
              !.UpdatedAt = t]

\* InMemoryStore.Save; every reading of time.Now() is later than the last.
Save(m) ==
    /\ Len(storeLog) < MaxOps
    /\ now' = now + 1
    /\ LET saved == Filled(m, now')
       IN  /\ memories' = [id \in DOMAIN memories \cup {saved.ID} |->
                              IF id = saved.ID THEN saved ELSE memories[id]]
           /\ storeLog' = Append(storeLog, LogEntry("Save", saved.ID, saved, FALSE))
    /\ storeUuids' = IF m.ID = "" THEN storeUuids + 1 ELSE storeUuids
    /\ UNCHANGED exceptStore

\* Mutant of Delete: the entry stays.
DeleteKeeps(id) ==
    /\ Len(storeLog) < MaxOps
    /\ memories' = memories
    /\ storeLog' = Append(storeLog, LogEntry("Delete", id, NoMemory,
                                             id \notin DOMAIN memories))
    /\ UNCHANGED <<now, storeUuids>>
    /\ UNCHANGED exceptStore

\* InMemoryStore.Delete: an error if the id is not stored.
Delete(id) ==
    /\ Len(storeLog) < MaxOps
    /\ memories' = [k \in DOMAIN memories \ {id} |-> memories[k]]
    /\ storeLog' = Append(storeLog, LogEntry("Delete", id, NoMemory,
                                             id \notin DOMAIN memories))
    /\ UNCHANGED <<now, storeUuids>>
    /\ UNCHANGED exceptStore

\* InMemoryStore.Clear.
Clear ==
    /\ Len(storeLog) < MaxOps
    /\ memories' = EmptyMap
    /\ storeLog' = Append(storeLog, LogEntry("Clear", "", NoMemory, FALSE))
    /\ UNCHANGED <<now, storeUuids>>
    /\ UNCHANGED exceptStore

\* InMemoryStore.Get: the memory, or a not-found error.
Get(id) ==
    IF id \in DOMAIN memories
    THEN [found |-> TRUE, memory |-> memories[id]]
    ELSE [found |-> FALSE, memory |-> NoMemory]

\* A Filter value.
Filter(type, since, until, limit, offset, metadata) ==
    [Type |-> type, Since |-> since, Until |-> until, Limit |-> limit,
     Offset |-> offset, Metadata |-> metadata]

\* The filters the caller lists with: no criterion, one criterion, and the
\* windows of Offset and Limit, over everything and over one type.
Filters ==
    {Filter(t, NoTime, NoTime, 0, 0, EmptyMap) : t \in {"", TypeEpisodic, TypeSemantic}}
    \cup {Filter("", since, NoTime, 0, 0, EmptyMap) : since \in {2, 3}}
    \cup {Filter("", NoTime, until, 0, 0, EmptyMap) : until \in {2, 3}}
    \cup {Filter("", NoTime, NoTime, 0, 0, [k \in {"topic"} |-> "go"])}
    \cup {Filter(t, NoTime, NoTime, l, o, EmptyMap) :
             t \in {"", TypeEpisodic}, l \in 0..2, o \in {0, 1, 2, 5}}

\* List's loop: the memories that pass the Type, Since and Until tests.
Selected(filter) ==
    {memories[id] : id \in {k \in DOMAIN memories :
        /\ filter.Type = "" \/ memories[k].Type = filter.Type
        /\ filter.Since = NoTime \/ memories[k].CreatedAt >= filter.Since
        /\ filter.Until = NoTime \/ memories[k].CreatedAt <= filter.Until}}

\* What sort.Slice can make of a set of memories with the comparison
\* CreatedAt.After: every order in which no memory precedes a newer one
\* (the map is ranged over in any order and the sort is not stable).
RECURSIVE NewestFirst(_)
NewestFirst(S) ==
    IF S = {} THEN {<<>>}
    ELSE UNION {{<<m>> \o t : t \in NewestFirst(S \ {m})} :
                   m \in {x \in S : \A y \in S : x.CreatedAt >= y.CreatedAt}}

\* List's offset and limit.
Window(seq, filter) ==
    IF filter.Offset >= Len(seq) THEN <<>>
    ELSE LET rest == IF filter.Offset > 0
                     THEN SubSeq(seq, filter.Offset + 1, Len(seq)) ELSE seq
         IN  IF filter.Limit > 0 /\ filter.Limit < Len(rest)
             THEN SubSeq(rest, 1, filter.Limit) ELSE rest

\* InMemoryStore.List: the lists it can return for a filter.
List(filter) == {Window(seq, filter) : seq \in NewestFirst(Selected(filter))}

StoreNext ==
    \/ \E m \in SavedMemories : Save(m)
    \/ \E id \in MemoryIds : Delete(id)
    \/ Clear

StoreSpec == Init /\ [][StoreNext]_vars

\* What the calls logged so far leave under id: the memory of the last Save
\* under id if no Delete of id and no Clear came after it.
RECURSIVE LastSaved(_, _)
LastSaved(log, id) ==
    IF log = <<>> THEN [found |-> FALSE, memory |-> NoMemory]
    ELSE LET e == log[Len(log)]
         IN  IF e.op = "Clear" \/ (e.op = "Delete" /\ e.id = id)
             THEN [found |-> FALSE, memory |-> NoMemory]
             ELSE IF e.op = "Save" /\ e.id = id
             THEN [found |-> TRUE, memory |-> e.memory]
             ELSE LastSaved(SubSeq(log, 1, Len(log) - 1), id)

\* C26: after any sequence of Save, Delete and Clear, Get(id) returns the
\* memory saved last under id unless it was deleted or cleared since, and
\* not-found otherwise; after Clear, List returns no memory.
C26_GetReturnsLastSaved ==
    /\ \A id \in MemoryIds : Get(id) = LastSaved(storeLog, id)
    /\ (storeLog # <<>> /\ storeLog[Len(storeLog)].op = "Clear") =>
           \A f \in Filters : List(f) = {<<>>}

\* A memory was saved under "a" twice and then deleted, another one is
\* still stored under an ID Save generated.
C26_Witness ==
    /\ Len(storeLog) = 3
    /\ storeLog[1].op = "Save" /\ storeLog[1].id = Uuids[1]
    /\ storeLog[2].op = "Save" /\ storeLog[2].id = "a"
    /\ storeLog[3].op = "Delete" /\ storeLog[3].id = "a"
    /\ ~Get("a").found
    /\ Get(Uuids[1]).found

\* The stored memories that match every criterion of the filter, Metadata
\* included: a memory matches it if it has every key of the filter's
\* Metadata with the same value.
Matching(filter) ==
    {m \in Selected(filter) :
        \A k \in DOMAIN filter.Metadata :
            k \in DOMAIN m.Metadata /\ m.Metadata[k] = filter.Metadata[k]}

\* C27: List returns the stored memories that match every criterion of the
\* filter (Type, Since, Until, Metadata), newest first, without the first
\* Offset of them and at most Limit of the rest if Limit > 0; nothing if
\* Offset is at or beyond the number of matches.
C27_ListMatchesFilter ==
    \A f \in Filters :
        \A res \in List(f) :
            \E seq \in NewestFirst(Matching(f)) :
                res = IF f.Offset >= Len(seq) THEN <<>>
                      ELSE LET rest == SubSeq(seq, f.Offset + 1, Len(seq))
                           IN  IF f.Limit > 0 /\ f.Limit < Len(rest)
                               THEN SubSeq(rest, 1, f.Limit) ELSE rest

(***************************************************************************)
(* DefaultPolicy and RestrictivePolicy.                                    *)
(***************************************************************************)
\* The number of AllowAction and DenyAction calls the caller makes.
MaxPolicyCalls == 3

\* The action types the caller names in its calls, and one it never names.
ActionTypes == {"read", "write"}
UnnamedType == "other"

\* m with the key k set to v.
MapSet(m, k, v) == [x \in DOMAIN m \cup {k} |-> IF x = k THEN v ELSE m[x]]

\* An entry of the caller's log of policy calls.
PolicyCall(policy, op, type) == [policy |-> policy, op |-> op, type |-> type]

\* DefaultPolicy.AllowAction.
DefaultAllowAction(type) ==
    /\ Len(policyLog) < MaxPolicyCalls
    /\ defaultAllowed' = MapSet(defaultAllowed, type, TRUE)
    /\ policyLog' = Append(policyLog, PolicyCall("default", "Allow", type))
    /\ UNCHANGED restrictiveAllowed
    /\ UNCHANGED exceptPolicy

\* DefaultPolicy.DenyAction.
DenyAction(type) ==
    /\ Len(policyLog) < MaxPolicyCalls
    /\ defaultAllowed' = MapSet(defaultAllowed, type, FALSE)
    /\ policyLog' = Append(policyLog, PolicyCall("default", "Deny", type))
    /\ UNCHANGED restrictiveAllowed
    /\ UNCHANGED exceptPolicy

\* RestrictivePolicy.AllowAction.
RestrictiveAllowAction(type) ==
    /\ Len(policyLog) < MaxPolicyCalls
    /\ restrictiveAllowed' = MapSet(restrictiveAllowed, type, TRUE)
    /\ policyLog' = Append(policyLog, PolicyCall("restrictive", "Allow", type))
    /\ UNCHANGED defaultAllowed
    /\ UNCHANGED exceptPolicy

\* Mutant of DefaultValidate: a type that is not in the map is rejected.
DefaultValidateDeniesUnknown(type) ==
    IF type \notin DOMAIN defaultAllowed \/ ~defaultAllowed[type]
    THEN "not allowed by policy" ELSE NoError

\* DefaultPolicy.Validate: the error it returns for an action of the type.
DefaultValidate(type) ==
    IF type \in DOMAIN defaultAllowed /\ ~defaultAllowed[type]
    THEN "not allowed by policy" ELSE NoError

\* Mutant of RestrictiveValidate: a type that is not in the map is accepted.
RestrictiveValidateAllowsUnknown(type) ==
    IF type \in DOMAIN restrictiveAllowed /\ ~restrictiveAllowed[type]
    THEN "not allowed by restrictive policy" ELSE NoError

\* RestrictivePolicy.Validate: the error it returns for an action of the type.
RestrictiveValidate(type) ==
    IF type \notin DOMAIN restrictiveAllowed \/ ~restrictiveAllowed[type]
    THEN "not allowed by restrictive policy" ELSE NoError

PolicyNext ==
    \/ \E type \in ActionTypes : DefaultAllowAction(type)
    \/ \E type \in ActionTypes : DenyAction(type)
    \/ \E type \in ActionTypes : RestrictiveAllowAction(type)

PolicySpec == Init /\ [][PolicyNext]_vars

\* The calls of the log made on the policy for the type.
CallsFor(policy, type) ==
    SelectSeq(policyLog, LAMBDA e : e.policy = policy /\ e.type = type)

\* C28: DefaultPolicy.Validate rejects a type exactly if the last call made
\* for it was DenyAction; it accepts every type no call has named.
C28_DefaultAllowsByDefault ==
    \A type \in ActionTypes \cup {UnnamedType} :
        LET cs == CallsFor("default", type)
        IN  DefaultValidate(type) # NoError <=>
                (cs # <<>> /\ cs[Len(cs)].op = "Deny")

\* "write" was denied and then allowed again, "read" was denied.
C28_Witness ==
    /\ Len(policyLog) = 3
    /\ CallsFor("default", "write") =
           <<PolicyCall("default", "Deny", "write"),
             PolicyCall("default", "Allow", "write")>>
    /\ CallsFor("default", "read") = <<PolicyCall("default", "Deny", "read")>>
    /\ DefaultValidate("write") = NoError
    /\ DefaultValidate("read") # NoError

\* C29: RestrictivePolicy.Validate accepts a type exactly if AllowAction was
\* called for it; it rejects every other type.
C29_RestrictiveDeniesByDefault ==
    \A type \in ActionTypes \cup {UnnamedType} :
        RestrictiveValidate(type) = NoError <=>
            CallsFor("restrictive", type) # <<>>

\* "read" was allowed on the restrictive policy, "write" only on the default
\* policy.
C29_Witness ==
    /\ CallsFor("restrictive", "read") # <<>>
    /\ CallsFor("restrictive", "write") = <<>>
    /\ CallsFor("default", "write") # <<>>
    /\ RestrictiveValidate("read") = NoError
    /\ RestrictiveValidate("write") # NoError

(***************************************************************************)
(* RandomMutator.                                                          *)
(***************************************************************************)
\* The number of Mutate calls the caller makes.
MaxMutations == 2

\* A Gene.  Value is an interface{}: Kind is its dynamic type and Value the
\* number that stands for it (an int is itself, a float64 is counted in
\* tenths, a bool is 0 or 1, a string is its number in the caller's list).
\* MinValue and MaxValue are the empty set when nil.
Gene(name, kind, value, mutable, min, max) ==
    [Name |-> name, Kind |-> kind, Value |-> value, Mutable |-> mutable,
     MinValue |-> min, MaxValue |-> max]

\* The genes the caller builds individuals from, as in the test: an int
\* "size", a float64 "rate" between 0.0 and 1.0, a bool "flag" and a string
\* "name", each mutable or not.
GeneVariants(name) ==
    IF name = "size"
    THEN {Gene(name, "int", v, mu, b[1], b[2]) :
             v \in {0, 50, 100}, mu \in BOOLEAN, b \in {<<{}, {}>>, <<{40}, {60}>>}}
    ELSE IF name = "rate"
    THEN {Gene(name, "float64", 5, mu, {0}, {10}) : mu \in BOOLEAN}
    ELSE IF name = "flag"
    THEN {Gene(name, "bool", v, mu, {}, {}) : v \in {0, 1}, mu \in BOOLEAN}
    ELSE {Gene(name, "string", 1, mu, {}, {}) : mu \in BOOLEAN}
GeneNames == {"size", "rate", "flag", "name"}
Individuals ==
    {[ID |-> "test", Genes |-> g, Version |-> 0] :
        g \in {f \in [GeneNames -> UNION {GeneVariants(n) : n \in GeneNames}] :
                  \A n \in GeneNames : f[n] \in GeneVariants(n)}}

\* Mutation rates in tenths (0.0, 0.5, 1.0), and what the generator draws
\* for a gene: u, the tenths of rng.Float64() (which is below 1.0), and d,
\* the value of rng.Intn(3), or the direction of the float step.
Rates == {0, 5, 10}
Draws == [u : {0, 9}, d : 0..2]

\* The only element of a set of one.
Only(S) == CHOOSE x \in S : TRUE

\* Mutant of MutateValue: the new value of an int is not clamped.
MutateValueUnclamped(gene, d) ==
    IF gene.Kind = "int" THEN gene.Value + (d - 1)
    ELSE IF gene.Kind = "bool" THEN 1 - gene.Value
    ELSE gene.Value

\* RandomMutator.mutateValue with the draw d: an int and a float64 move by
\* at most one step (a tenth of the range for a float64) and are clamped to
\* [min, max], a bool is negated, anything else is kept.
MutateValue(gene, d) ==
    IF gene.Kind = "int"
    THEN LET min == IF gene.MinValue = {} THEN 0 ELSE Only(gene.MinValue)
             max == IF gene.MaxValue = {} THEN 100 ELSE Only(gene.MaxValue)
             v   == gene.Value + (d - 1)
             lo  == IF v < min THEN min ELSE v
         IN  IF lo > max THEN max ELSE lo
    ELSE IF gene.Kind = "float64"
    THEN LET min == IF gene.MinValue = {} THEN 0 ELSE Only(gene.MinValue)
             max == IF gene.MaxValue = {} THEN 10 ELSE Only(gene.MaxValue)
             v   == gene.Value + ((max - min) \div 10) * (d - 1)
             lo  == IF v < min THEN min ELSE v
         IN  IF lo > max THEN max ELSE lo
    ELSE IF gene.Kind = "bool" THEN 1 - gene.Value
    ELSE gene.Value

\* Mutant of MutateGene: Mutable is not looked at.
MutateGeneIgnoresMutable(gene, rate, draw) ==
    IF draw.u < rate
    THEN [gene EXCEPT !.Value = MutateValue(gene, draw.d)]
    ELSE gene

\* Mutate's loop body: the copy of the gene, mutated if the gene is mutable
\* and the draw is below the rate.
MutateGene(gene, rate, draw) ==
    IF gene.Mutable /\ draw.u < rate
    THEN [gene EXCEPT !.Value = MutateValue(gene, draw.d)]
    ELSE gene

\* The caller builds an individual.
NewIndividual ==
    /\ individual = NoIndividual
    /\ \E ind \in Individuals : individual' = ind
    /\ UNCHANGED <<mutated, mutateRate, evolutionUuids>>
    /\ UNCHANGED exceptEvolution

\* The genomes Mutate's loop can build from the genes named: every gene is
\* copied with some draw of the generator.
RECURSIVE MutatedGenomes(_, _, _)
MutatedGenomes(genes, names, rate) ==
    IF names = {} THEN {EmptyMap}
    ELSE LET n == CHOOSE x \in names : TRUE
         IN  {MapSet(g, n, new) :
                 g \in MutatedGenomes(genes, names \ {n}, rate),
                 new \in {MutateGene(genes[n], rate, draw) : draw \in Draws}}

\* RandomMutator.Mutate: a new individual with a new ID, the next version
\* and the genome its loop built; the input is only read.
Mutate(rate, genome) ==
    /\ individual # NoIndividual
    /\ evolutionUuids < MaxMutations
    /\ mutated' = [ID |-> Uuids[evolutionUuids + 1], Genes |-> genome,
                   Version |-> individual.Version + 1]
    /\ mutateRate' = rate
    /\ evolutionUuids' = evolutionUuids + 1
    /\ individual' = individual
    /\ UNCHANGED exceptEvolution

\* The caller goes on with the individual Mutate returned.
MutateAgain ==
    /\ mutated # NoIndividual
    /\ individual' = mutated
    /\ mutated' = NoIndividual
    /\ UNCHANGED <<mutateRate, evolutionUuids>>
    /\ UNCHANGED exceptEvolution

MutateCall ==
    /\ individual # NoIndividual
    /\ \E rate \in Rates :
           \E genome \in MutatedGenomes(individual.Genes,
                                        DOMAIN individual.Genes, rate) :
               Mutate(rate, genome)

EvolutionNext ==
    \/ NewIndividual
    \/ MutateCall
    \/ MutateAgain

EvolutionSpec == Init /\ [][EvolutionNext]_vars

\* C30: Mutate returns a new individual with a new ID in which every gene
\* that is not mutable has the value it has in the input, whatever the rate,
\* and Mutate leaves the input individual and its genome as they were.
C30_MutateKeepsImmutable ==
    /\ [](mutated # NoIndividual =>
             /\ mutated.ID # individual.ID
             /\ DOMAIN mutated.Genes = DOMAIN individual.Genes
             /\ \A n \in DOMAIN individual.Genes :
                    ~individual.Genes[n].Mutable =>
                        mutated.Genes[n].Value = individual.Genes[n].Value)
    /\ [][mutated' # mutated /\ mutated' # NoIndividual =>
              individual' = individual]_vars

\* Mutate was called at rate 1.0 a second time, on the individual of the
\* first call: its mutable flag changed, its immutable size did not.
C30_Witness ==
    /\ mutated # NoIndividual
    /\ mutateRate = 10
    /\ individual.ID = Uuids[1]
    /\ ~individual.Genes["size"].Mutable
    /\ individual.Genes["flag"].Mutable
    /\ mutated.Genes["flag"].Value # individual.Genes["flag"].Value

(***************************************************************************)
(* The life of a StepResult.                                               *)
(***************************************************************************)
\* The status changes one step of ExecuteStep can make to the StepResult of
\* a step.  A step that has no StepResult yet (NoStatus) is the pending one.
\* ExecuteStep creates the StepResult Running and, when the step's timeout
\* does not parse or its action is not registered, fails it before it
\* returns, with nothing running in between: that path is one step from
\* NoStatus to Failed.
StatusChanges ==
    {<<NoStatus, StatusSkipped>>, <<NoStatus, StatusRunning>>,
     <<NoStatus, StatusFailed>>,
     <<StatusRunning, StatusCompleted>>, <<StatusRunning, StatusFailed>>}

\* The status of the StepResult a direct ExecuteStep call works on or has
\* returned.
DirectStatus ==
    IF pc \in {"stepCalled", "stepHandler", "stepDone"} THEN stepResult.Status
    ELSE NoStatus

Independent(i, j) ==
    /\ i # j
    /\ i \notin TransDeps(j)
    /\ j \notin TransDeps(i)

\* Both steps wait to be started and nothing they depend on is unfinished.
BothReady(i, j) ==
    /\ pc \in {"loop", "handler"}
    /\ i \in Positions /\ j \in Positions
    /\ Independent(i, j)
    /\ ValidGraph /\ ActionsRegistered /\ TimeoutsParse
    /\ StepStatus(i) = NoStatus /\ StepStatus(j) = NoStatus
    /\ \A d \in Deps(i) \cup Deps(j) : StepStatus(d) \in Terminal

\* The positions of the steps that are Running.
RunningSteps == {i \in Positions : StepStatus(i) = StatusRunning}

\* C33 (as claimed): two steps without a dependency path between them, both
\* waiting with all their dependencies terminal, come to be Running at the
\* same time.
C33_IndependentStepsOverlap ==
    \A i \in 1..MaxSteps : \A j \in 1..MaxSteps :
        BothReady(i, j) ~> ({i, j} \subseteq RunningSteps)

\* What the code does instead: Execute has at most one step Running.
C33_OneStepAtATime == Called => Cardinality(RunningSteps) <= 1

\* C34: while Execute runs, no step of it changes the Workflow value, its
\* steps or their With mappings; a direct ExecuteStep call leaves the step
\* it was given, With mapping included, as the caller passed it, up to its
\* return; the inputs the handler is called with are the merge of the
\* caller's inputs and the unchanged step.With.
C34_WorkflowReadOnly ==
    [][/\ Called /\ Called' => w' = w
       /\ pc \in {"stepCalled", "stepHandler"} => argStep' = argStep
       /\ pc = "loop" /\ pc' = "handler" =>
              handlerInputs' = MergeInputs(EmptyMap, w.Steps[idx].With)
       /\ pc = "stepCalled" /\ pc' = "stepHandler" =>
              handlerInputs' = MergeInputs(argInputs, argStep.With)]_vars

\* A direct ExecuteStep call returned Completed for a step with a With
\* mapping, called with inputs under a key the mapping does not have.
C34_Witness ==
    /\ pc = "stepDone"
    /\ stepResult.Status = StatusCompleted
    /\ argStep.With = [k \in {"message"} |-> "hello"]
    /\ argInputs = [k \in {"message", "extra"} |-> "bye"]

\* The places in result.Steps of the StepResults that are Failed.
FailedEntries ==
    {k \in DOMAIN result.Steps : result.Steps[k].Status = StatusFailed}

\* C35: in the WorkflowResult Execute returned, at most one StepResult is
\* Failed; if one is, it is the last entry, every entry before it is
\* Completed, and the error Execute returned is that StepResult's error.
C35_OneFailureLast ==
    Returned =>
        /\ Cardinality(FailedEntries) <= 1
        /\ \A k \in FailedEntries :
               /\ k = Len(result.Steps)
               /\ \A j \in 1..(k - 1) :
                      result.Steps[j].Status = StatusCompleted
               /\ ret.err = result.Steps[k].Error
               /\ ret.err # NoError

\* Execute returned after the third step of a workflow failed behind two
\* completed ones.
C35_Witness ==
    /\ Returned
    /\ Len(w.Steps) = 3
    /\ FailedEntries = {3}
    /\ result.Steps[1].Status = StatusCompleted
    /\ result.Steps[2].Status = StatusCompleted
    /\ ret.err = ErrAction

(***************************************************************************)
(* Concurrent calls on one agent.                                          *)
(***************************************************************************)
\* C36 (as claimed): at most one Run call is between its admission and its
\* return, and a Run called while another one is there is refused with
\* ErrAlreadyRunning at its admission, before it calls the provider.
C36_OneRunAtATime ==
    /\ [](Cardinality(InFlight) <= 1)
    /\ [][\A r \in Runners :
              /\ runs[r].pc \in {"idle", "returned"}
              /\ runs'[r] # runs[r]
              /\ InFlight # {}
              => /\ runs'[r].pc = "returned"
                 /\ runs'[r].err = ErrAlreadyRunning]_vars

\* C37 (as claimed): once the state is Stopped, no step of a Run that is in
\* flight or called later, and no Pause or Resume, makes it anything else.
C37_StoppedAbsorbing ==
    [][agentState = StateStopped /\ agentOp' \in {"Run", "Pause", "Resume"}
           => agentState' = StateStopped]_vars

\* The fields of the agent the next step of a Run at the given place reads
\* after a.mu was unlocked: the BeforeRun loop ranges over a.hooks, the
\* request is built from a.history, result.Messages is copied from a.history
\* after the history update has unlocked, the AfterRun loop ranges over
\* a.hooks.  The admission, the history update itself, the provider-error
\* path and the deferred function lock a.mu around what they access.
UnlockedAccesses(at) ==
    CASE at = "before" -> {"hooks"}
      [] at = "build"  -> {"history"}
      [] at = "update" -> {"history"}
      [] at = "after"  -> {"hooks"}
      [] OTHER         -> {}

\* The fields AddHook and ClearHistory write, each with a.mu locked.
LockedWrites(op) ==
    CASE op = "AddHook"      -> {"hooks"}
      [] op = "ClearHistory" -> {"history"}
      [] OTHER               -> {}

\* C38 (as claimed): a Run that is in flight while AddHook or ClearHistory
\* writes hooks or history does not go on to access that field without the
\* mutex: no step of a Run that follows such a write reads the written field
\* unlocked.
C38_AccessesUnderMutex ==
    [][\A r \in Runners :
           runs'[r].pc # runs[r].pc =>
               UnlockedAccesses(runs[r].pc) \cap LockedWrites(agentOp) = {}]_vars

(***************************************************************************)
(* Save and Delete, call by call.                                          *)
(***************************************************************************)
\* The CreatedAt the caller gave the memory it saved with this content (the
\* memories the callers save differ in their content).
GivenCreatedAt(content) ==
    (CHOOSE m \in SavedMemories : m.Content = content).CreatedAt

\* The call the caller made last.
LastCall == storeLog[Len(storeLog)]

\* C39: a Save under an ID that is stored replaces that entry and leaves the
\* number of entries and every other entry as they were, a Save under a new
\* ID adds one entry; the entry has the CreatedAt the caller gave unless that
\* was zero; a Delete of an ID that is not stored returns an error and
\* leaves the store as it was, and only such a Delete returns one.
C39_SaveReplaces ==
    [][storeLog' # storeLog =>
          LET e == LastCall' IN
          /\ e.op = "Save" =>
                 /\ DOMAIN memories' = DOMAIN memories \cup {e.id}
                 /\ Cardinality(DOMAIN memories') =
                        Cardinality(DOMAIN memories)
                            + (IF e.id \in DOMAIN memories THEN 0 ELSE 1)
                 /\ memories'[e.id] = e.memory
                 /\ \A id \in DOMAIN memories \ {e.id} :
                        memories'[id] = memories[id]
                 /\ GivenCreatedAt(e.memory.Content) # ZeroTime =>
                        e.memory.CreatedAt = GivenCreatedAt(e.memory.Content)
                 /\ e.memory.CreatedAt # ZeroTime
          /\ e.op = "Delete" =>
                 /\ e.failed <=> e.id \notin DOMAIN memories
                 /\ e.failed => memories' = memories
                 /\ ~e.failed => DOMAIN memories' = DOMAIN memories \ {e.id}]_vars

\* A memory with a creation time was saved under "a", another one was saved
\* under "a" after it, and a Delete of "b", which is not stored, failed: one
\* entry is stored, with the creation time the caller gave.
C39_Witness ==
    /\ Len(storeLog) = 3
    /\ storeLog[1].op = "Save" /\ storeLog[1].id = "a"
    /\ storeLog[2].op = "Save" /\ storeLog[2].id = "a"
    /\ storeLog[2].memory.Content = "m4"
    /\ storeLog[3].op = "Delete" /\ storeLog[3].id = "b" /\ storeLog[3].failed
    /\ DOMAIN memories = {"a"}
    /\ memories["a"].CreatedAt = 2
    /\ memories["a"].UpdatedAt # 2

(***************************************************************************)
(* The range of a mutated int.                                             *)
(***************************************************************************)
\* The bounds mutateValue uses for an int gene: MinValue and MaxValue, or 0
\* and 100 where they are nil.
IntMin(gene) == IF gene.MinValue = {} THEN 0 ELSE Only(gene.MinValue)
IntMax(gene) == IF gene.MaxValue = {} THEN 100 ELSE Only(gene.MaxValue)

====
